---- MODULE Spec2Model ----
(***************************************************************************)
(* Model of scripts/hk_baba_strategy.py: the cron-driven forward-test      *)
(* strategy driver (main), its order reconciler (ensure_order), the venue  *)
(* placement call (place_limit) and the state file (load_state /           *)
(* save_state).                                                            *)
(*                                                                         *)
(* Units.  Prices are integers in cents (1/100 HKD); the venue tick of     *)
(* round_hk_price is 0.1 HKD = 10 cents and the reconciler's tolerance     *)
(* 0.05 HKD = 5 cents.  A level that is a mean is kept as the rational     *)
(* n/d of cents.  Budgets and equities are whole HKD.  Timestamps are      *)
(* seconds.  Python floats are modelled by exact arithmetic on these       *)
(* scaled integers; round() is round-half-to-even as in Python 3.          *)
(*                                                                         *)
(* An optional value (Python None or a value) is a sequence of length 0    *)
(* or 1: None is << >> and a value v is <<v>>.                             *)
(***************************************************************************)
EXTENDS Integers, Sequences, FiniteSets, TLC

VARIABLES
    clock,        \* wall clock read by now_ts()
    file,         \* the state file at args.state: [kind, data], kind "absent", "partial" or "full"
    tmp,          \* the file args.state + ".tmp", same shape
    book,         \* the venue's order list for the code (sequence of orders)
    pc,           \* position of the running invocation of main(); "idle" between invocations
    args,         \* parsed command line, what main() reads of it after line 204: [budget]
    state,        \* main's `state` dict
    start_ts,     \* main's local start_ts
    k,            \* main's kline `k` (sequence of bars) where the level calculator is
                  \* stepped on its own; GetKline folds lines 260-268 into one step
    levels,       \* [low20, low50, sma200], each optional
    last_price,   \* main's last_price
    lot,          \* main's lot
    holding_qty,  \* main's holding_qty
    avg_cost,     \* main's avg_cost (optional)
    orders,       \* main's `orders` snapshot of the book
    buckets,      \* sorted(buckets.items(), reverse=True) as a sequence
    bi,           \* index of the next bucket of the buy loop
    actions,      \* main's `actions` list
    msg,          \* the END_OF_TEST message (optional)
    out,          \* what the invocation has printed (sequence)
    outcome,      \* how the invocation ended: "none" while running, "returned", "raised", "killed"
    calls,        \* history: the place_order calls of the invocation
    fileAtStart,  \* history: the state file when the invocation started
    runs,         \* history: number of invocations started
    prev          \* history: the data and the accepted placements of the latest invocation
                  \* when it was killed after placing and before os.replace (CrashSpec)

vars == <<clock, file, tmp, book, pc, args, state, start_ts, k, levels, last_price,
          lot, holding_qty, avg_cost, orders, buckets, bi, actions, msg, out,
          outcome, calls, fileAtStart, runs, prev>>

\* the locals of main() that live from the data reads to the end of the cycle
cycleLocals == <<levels, last_price, lot, holding_qty, avg_cost, orders, buckets, bi>>

None == << >>
Some(v) == <<v>>
IsNone(o) == Len(o) = 0
Val(o) == o[1]

Max(a, b) == IF a >= b THEN a ELSE b
Min(a, b) == IF a <= b THEN a ELSE b
Abs(a) == IF a < 0 THEN -a ELSE a

RECURSIVE SeqSum(_)
SeqSum(s) == IF Len(s) = 0 THEN 0 ELSE Head(s) + SeqSum(Tail(s))

RECURSIVE SeqMin(_)
SeqMin(s) == IF Len(s) = 1 THEN Head(s) ELSE Min(Head(s), SeqMin(Tail(s)))

\* s[-n:] of Python for 0 < n
LastN(s, n) == IF Len(s) <= n THEN s ELSE SubSeq(s, Len(s) - n + 1, Len(s))

(***************************************************************************)
(* Bounds of the model.                                                    *)
(***************************************************************************)
MaxBook == 2        \* the venue accepts an order only while it lists fewer than this
MaxRuns == 2        \* invocations of main() in one behaviour
MaxTicks == 1       \* clock advances in one behaviour

(***************************************************************************)
(* Pure functions of the script.                                           *)
(***************************************************************************)
\* Python round(n/d): nearest integer, ties to the even one (d > 0)
RoundHalfEven(n, d) ==
    LET q == n \div d
        r == n % d
    IN  IF 2 * r < d THEN q
        ELSE IF 2 * r > d THEN q + 1
        ELSE IF q % 2 = 0 THEN q ELSE q + 1

\* round_hk_price(px) for px = n/d cents: round(px * 10) / 10.0, in cents
round_hk_price(n, d) == 10 * RoundHalfEven(n, 10 * d)

\* sma(vals, period): None when too short, else the mean of the last `period` values
sma(vals, period) ==
    IF Len(vals) < period THEN None
    ELSE Some([n |-> SeqSum(LastN(vals, period)), d |-> period])

\* a variant of low_n that takes the minimum over the whole series
low_n_whole(lows, period) ==
    IF Len(lows) >= period THEN Some([n |-> SeqMin(lows), d |-> 1])
    ELSE None

\* min(lows[-period:]) if len(lows) >= period else None
low_n(lows, period) ==
    IF Len(lows) >= period THEN Some([n |-> SeqMin(LastN(lows, period)), d |-> 1])
    ELSE None

\* k.sort_values("time_key"): the bars in ascending time order (distinct keys)
sort_values(kl) ==
    LET bars == {kl[i] : i \in 1..Len(kl)}
        rank == [b \in bars |-> Cardinality({c \in bars : c.time_key < b.time_key})]
    IN  [i \in 1..Len(kl) |-> CHOOSE b \in bars : rank[b] = i - 1]

\* the three support levels main() derives from the kline
Levels(kl) ==
    LET s == sort_values(kl)
        lows == [i \in 1..Len(s) |-> s[i].low]
        closes == [i \in 1..Len(s) |-> s[i].close]
    IN  [low20 |-> low_n(lows, 20), low50 |-> low_n(lows, 50), sma200 |-> sma(closes, 200)]

(***************************************************************************)
(* Tranche allocator (main, lines 296-318).                                *)
(***************************************************************************)
\* raw_levels: (name, level, budget share in cents) in the order of the source
RawLevels(lv, budget) ==
    << [name |-> "LOW20", level |-> lv.low20, budget |-> budget * 30],
       [name |-> "LOW50", level |-> lv.low50, budget |-> budget * 35],
       [name |-> "SMA200", level |-> lv.sma200, budget |-> budget * 35] >>

LevelPx(r) == round_hk_price(Val(r.level).n, Val(r.level).d)

\* a variant of SortDesc without reverse=True: ascending
RECURSIVE SortAsc(_)
SortAsc(S) ==
    IF S = {} THEN << >>
    ELSE LET m == CHOOSE x \in S : \A y \in S : x <= y
         IN  <<m>> \o SortAsc(S \ {m})

RECURSIVE SortDesc(_)
SortDesc(S) ==
    IF S = {} THEN << >>
    ELSE LET m == CHOOSE x \in S : \A y \in S : y <= x
         IN  <<m>> \o SortDesc(S \ {m})

\* a variant of Buckets that does not skip a null level: float(level or 0)
\* gives it a bucket at price 0
BucketsWithNull(lv, budget) ==
    LET all == RawLevels(lv, budget)
        pxOf(r) == IF IsNone(r.level) THEN 0 ELSE LevelPx(r)
        pxs == SortDesc({pxOf(all[i]) : i \in 1..Len(all)})
        of(px) == SelectSeq(all, LAMBDA r : pxOf(r) = px)
    IN  [j \in 1..Len(pxs) |->
            [px |-> pxs[j],
             names |-> [i \in 1..Len(of(pxs[j])) |-> of(pxs[j])[i].name],
             budget |-> SeqSum([i \in 1..Len(of(pxs[j])) |-> of(pxs[j])[i].budget])]]

\* a variant of Buckets in which a level that rounds to the price of an
\* earlier one replaces its budget instead of adding to it
BucketsOverwrite(lv, budget) ==
    LET present == SelectSeq(RawLevels(lv, budget), LAMBDA r : ~IsNone(r.level))
        pxs == SortDesc({LevelPx(present[i]) : i \in 1..Len(present)})
        of(px) == SelectSeq(present, LAMBDA r : LevelPx(r) = px)
    IN  [j \in 1..Len(pxs) |->
            [px |-> pxs[j],
             names |-> [i \in 1..Len(of(pxs[j])) |-> of(pxs[j])[i].name],
             budget |-> of(pxs[j])[Len(of(pxs[j]))].budget]]

\* the buckets dict, as sorted(buckets.items(), key=price, reverse=True)
Buckets(lv, budget) ==
    LET present == SelectSeq(RawLevels(lv, budget), LAMBDA r : ~IsNone(r.level))
        pxs == SortDesc({LevelPx(present[i]) : i \in 1..Len(present)})
        of(px) == SelectSeq(present, LAMBDA r : LevelPx(r) = px)
    IN  [j \in 1..Len(pxs) |->
            [px |-> pxs[j],
             names |-> [i \in 1..Len(of(pxs[j])) |-> of(pxs[j])[i].name],
             budget |-> SeqSum([i \in 1..Len(of(pxs[j])) |-> of(pxs[j])[i].budget])]]

\* lines 315-318: the quantity of a bucket's buy order
BuyQty(b, lt) ==
    LET raw_qty == b.budget \div b.px
        qty == (raw_qty \div lt) * lt
    IN  IF qty < lt THEN lt ELSE qty

(***************************************************************************)
(* Sell rule A (main, lines 323-353).                                      *)
(***************************************************************************)
\* Python truthiness of an optional number: None and 0 are false
Truthy(o) == ~IsNone(o) /\ Val(o) # 0

SellRuleApplies(holding, cost) == holding > 0 /\ Truthy(cost)

TakeProfit1(cost) == round_hk_price(Val(cost) * 105, 100)
TakeProfit2(cost) == round_hk_price(Val(cost) * 110, 100)

\* a variant of OneThird without the raise to one lot of lines 328-329
OneThirdUnraised(holding, lt) == ((holding \div 3) \div lt) * lt

OneThird(holding, lt) ==
    LET q == ((holding \div 3) \div lt) * lt
    IN  IF q < lt THEN lt ELSE q

\* a variant of Remaining without the floor to a lot multiple of line 344
RemainingUnfloored(holding, lt) == holding - 2 * OneThird(holding, lt)

Remaining(holding, lt) == ((holding - 2 * OneThird(holding, lt)) \div lt) * lt

\* line 340: float(state.get("max_price_since_entry") or last_price)
TrailMax(st, last) ==
    IF Truthy(st.max_price_since_entry) THEN Val(st.max_price_since_entry) ELSE last

\* line 345: remaining >= lot and last_price <= mx * 0.95
TrailFires(st, holding, lt, last) ==
    /\ Remaining(holding, lt) >= lt
    /\ 100 * last <= 95 * TrailMax(st, last)

TrailPx(last) == round_hk_price(last * 995, 1000)

\* a variant of TrackMax that stores the last price instead of the running peak
TrackMaxLast(st, holding, last) ==
    IF holding > 0
    THEN [st EXCEPT !.max_price_since_entry = Some(last)]
    ELSE [st EXCEPT !.max_price_since_entry = None]

\* lines 287-294: the peak price since entry
TrackMax(st, holding, last) ==
    IF holding > 0
    THEN LET mx == IF ~IsNone(st.max_price_since_entry)
                   THEN Val(st.max_price_since_entry) ELSE last
         IN  [st EXCEPT !.max_price_since_entry = Some(Max(mx, last))]
    ELSE [st EXCEPT !.max_price_since_entry = None]

(***************************************************************************)
(* Reconciler (ensure_order) and the venue's place_order.                  *)
(***************************************************************************)
PriceTol == 5

\* a row of order_list_query
Order(side, qty, price, status) ==
    [trd_side |-> side, qty |-> qty, price |-> price, order_status |-> status]

ActiveStatuses ==
    {"SUBMITTED", "SUBMITTING", "WAITING_SUBMIT", "SUBMIT_FAILED",
     "SUBMITTING_PART", "SUBMITTED_PART"}

\* a variant of Exists that does not filter on the order status
ExistsAnyStatus(ords, side, price, tol) ==
    \E i \in 1..Len(ords) :
        /\ ords[i].trd_side = side
        /\ Abs(ords[i].price - price) <= tol

\* a variant of Exists that matches equal prices only
ExistsExactPrice(ords, side, price, tol) ==
    \E i \in 1..Len(ords) :
        /\ ords[i].order_status \in ActiveStatuses
        /\ ords[i].trd_side = side
        /\ ords[i].price = price

\* lines 169-179: an active order of the side with a price within the tolerance
Exists(ords, side, price, tol) ==
    \E i \in 1..Len(ords) :
        /\ ords[i].order_status \in ActiveStatuses
        /\ ords[i].trd_side = side
        /\ Abs(ords[i].price - price) <= tol

\* a variant of ensure_order that does not look at the existing orders
ensure_order_blind(ords, side, qty, price, tol) ==
    IF qty <= 0 THEN "qty<=0" ELSE "place"

\* what ensure_order does with a desired order: "qty<=0", "exists" or "place"
ensure_order(ords, side, qty, price, tol) ==
    IF qty <= 0 THEN "qty<=0"
    ELSE IF Exists(ords, side, price, tol) THEN "exists"
    ELSE "place"

\* a variant of place_limit that modifies the latest order instead of adding one
place_limit_replacing(bk, side, qty, price) ==
    IF Len(bk) > 0
    THEN [bk EXCEPT ![Len(bk)] = Order(side, qty, price, "SUBMITTED")]
    ELSE Append(bk, Order(side, qty, price, "SUBMITTED"))

\* the venue's list after it accepts place_order(price, qty, side)
place_limit(bk, side, qty, price) == Append(bk, Order(side, qty, price, "SUBMITTED"))

DaySeconds == 24 * 3600

Notes == "buy 20d low / 50d low / 200d SMA, 30/35/35; sell rule A"

\* a state dict before main() fills it (load_state found no file)
EmptyState ==
    [start_ts |-> 0, end_ts |-> 0, max_price_since_entry |-> None,
     initial_equity_hkd |-> None, notes |-> ""]

\* lines 201-210: the state a first invocation creates at time `now`
NewState(now, days) ==
    [start_ts |-> now, end_ts |-> now + days * DaySeconds,
     max_price_since_entry |-> None, initial_equity_hkd |-> None, notes |-> Notes]

Absent == [kind |-> "absent", data |-> EmptyState]
Full(st) == [kind |-> "full", data |-> st]
\* a file opened for writing and not yet complete: no JSON document
Partial == [kind |-> "partial", data |-> EmptyState]

\* load_state(path): {} when there is no file, else the parsed dict
load_state(f) == IF f.kind = "full" THEN f.data ELSE EmptyState

(***************************************************************************)
(* Inputs: what the command line, the clock and the venue can supply.      *)
(***************************************************************************)
T0 == 1000
DaysChoices == {0, 1}
BudgetChoices == {1000000}
EquityChoices == {None, Some(1000000)}
FinalEquityChoices == {None, Some(0), Some(1100000)}
LastPriceChoices == {11300, 12000}
LotChoices == {100}
PositionChoices ==
    { [qty |-> 0, cost |-> None],
      [qty |-> 950, cost |-> Some(10000)] }

\* a daily bar
Bar(t, low, close) == [time_key |-> t, low |-> low, close |-> close]

\* n bars in ascending time: low `old` but for the last, whose low is `new`
DipBars(n, old, new, close) ==
    [i \in 1..n |-> Bar(i, IF i = n THEN new ELSE old, close)]

\* n bars: the low is `l50` but for the last 20 (`l20`) and the bars older than
\* the last 50 (`lold`); the close is `c` but for the last bar (`clast`) and
\* the bars older than the last 200 (`cold`)
StepBars(n, lold, l50, l20, cold, c, clast) ==
    [i \in 1..n |->
        Bar(i,
            IF i > n - 20 THEN l20 ELSE IF i > n - 50 THEN l50 ELSE lold,
            IF i = n THEN clast ELSE IF i > n - 200 THEN c ELSE cold)]

Reverse(s) == [i \in 1..Len(s) |-> s[Len(s) + 1 - i]]

KlineChoices ==
    { DipBars(20, 10000, 9000, 9500),
      Reverse(StepBars(201, 8000, 9000, 9200, 20000, 9000, 9700)) }

\* the klines of the one-cycle specification: also one too short for any level,
\* one whose three levels round to three prices and one whose three levels
\* round to one price
WideKlineChoices ==
    KlineChoices \cup
    { DipBars(19, 10000, 9000, 9500),
      StepBars(201, 8000, 8800, 9200, 20000, 9000, 9700),
      StepBars(201, 8000, 9000, 9000, 20000, 9000, 9700) }

\* the level triples those klines give
LevelChoices == {Levels(kl) : kl \in KlineChoices}
WideLevelChoices == {Levels(kl) : kl \in WideKlineChoices}

NoLevels == [low20 |-> None, low50 |-> None, sma200 |-> None]

(***************************************************************************)
(* The venue's order list.                                                 *)
(***************************************************************************)
InitBooks ==
    { << >>,
      << Order("BUY", 100, 9003, "SUBMITTED") >> }

\* the lists the one-cycle specification starts from: also a filled SELL at a
\* take-profit price, an active BUY at a take-profit price and a cancelled
\* BUY at a support price
WideBooks ==
    InitBooks \cup
    { << Order("SELL", 300, 10500, "FILLED_ALL") >>,
      << Order("BUY", 300, 10500, "SUBMITTED") >>,
      << Order("BUY", 100, 9000, "CANCELLED_ALL") >> }

\* no invocation was killed between a placement and the save
NoPrev == [killed |-> FALSE, budget |-> 0, levels |-> NoLevels, lot |-> 0,
           holding_qty |-> 0, avg_cost |-> None, placed |-> << >>]

Init ==
    /\ clock = T0
    /\ file = Absent
    /\ tmp = Absent
    /\ book \in InitBooks
    /\ pc = "idle"
    /\ args = [budget |-> 0]
    /\ state = EmptyState
    /\ start_ts = 0
    /\ k = << >>
    /\ levels = NoLevels
    /\ last_price = 0
    /\ lot = 0
    /\ holding_qty = 0
    /\ avg_cost = None
    /\ orders = << >>
    /\ buckets = << >>
    /\ bi = 0
    /\ actions = << >>
    /\ msg = None
    /\ out = << >>
    /\ outcome = "none"
    /\ calls = << >>
    /\ fileAtStart = Absent
    /\ runs = 0
    /\ prev = NoPrev

(***************************************************************************)
(* save_state(path, state), lines 80-85, one step per file operation.      *)
(* Each operator gives the two files after the step.                       *)
(***************************************************************************)
\* a variant of save_open that opens the state file itself for writing
save_open_in_place(f, t, st) == [file |-> Partial, tmp |-> t]

\* open(tmp, "w"): the temporary file exists and is empty
save_open(f, t, st) == [file |-> f, tmp |-> Partial]

\* json.dump(state, f) and the close of the with block: the temporary file is complete
save_dump(f, t, st) == [file |-> f, tmp |-> Full(st)]

\* os.replace(tmp, path): one atomic rename
save_replace(f, t) == [file |-> t, tmp |-> Absent]

(***************************************************************************)
(* main(): start of an invocation, lines 190-257.                          *)
(***************************************************************************)
\* a variant of Invoke that sets end_ts from --days outside the `if not start_ts`
\* block, on every invocation
InvokeResetEnd ==
    /\ pc = "idle"
    /\ runs < MaxRuns
    /\ runs' = runs + 1
    /\ fileAtStart' = file
    /\ IF file.kind = "partial"
       THEN /\ pc' = "exit"
            /\ outcome' = "raised"
            /\ UNCHANGED <<state, start_ts>>
       ELSE /\ pc' = "acc"
            /\ outcome' = "none"
            /\ IF load_state(file).start_ts = 0
               THEN /\ start_ts' = clock
                    /\ \E d \in DaysChoices : state' = NewState(clock, d)
               ELSE /\ start_ts' = load_state(file).start_ts
                    /\ \E d \in DaysChoices :
                         state' = [load_state(file) EXCEPT
                                      !.end_ts = load_state(file).start_ts + d * DaySeconds]
    /\ \E b \in BudgetChoices : args' = [budget |-> b]
    /\ UNCHANGED <<prev, k, clock, file, tmp, book, cycleLocals, actions, msg, out, calls>>

\* lines 199-213; json.load raises on a file that is not complete JSON
Invoke ==
    /\ pc = "idle"
    /\ runs < MaxRuns
    /\ runs' = runs + 1
    /\ fileAtStart' = file
    /\ IF file.kind = "partial"
       THEN /\ pc' = "exit"
            /\ outcome' = "raised"
            /\ UNCHANGED <<state, start_ts>>
       ELSE /\ pc' = "acc"
            /\ outcome' = "none"
            /\ IF load_state(file).start_ts = 0
               THEN /\ start_ts' = clock
                    /\ \E d \in DaysChoices : state' = NewState(clock, d)
               ELSE /\ start_ts' = load_state(file).start_ts
                    /\ state' = load_state(file)
    /\ \E b \in BudgetChoices : args' = [budget |-> b]
    /\ UNCHANGED <<prev, k, clock, file, tmp, book, cycleLocals, actions, msg, out, calls>>

\* line 215: get_sim_acc_id returns
GetAccId ==
    /\ pc = "acc"
    /\ pc' = "equity"
    /\ UNCHANGED <<prev, k, clock, file, tmp, book, args, state, start_ts, cycleLocals,
                   actions, msg, out, outcome, calls, fileAtStart, runs>>

\* a variant of EquitySnapshot without the `is None` test of line 218: every
\* invocation stores what its account read gave, a failed read included
EquitySnapshotAlways ==
    /\ pc = "equity"
    /\ pc' = "endcheck"
    /\ \E e \in EquityChoices : state' = [state EXCEPT !.initial_equity_hkd = e]
    /\ UNCHANGED <<prev, k, clock, file, tmp, book, args, start_ts, cycleLocals,
                   actions, msg, out, outcome, calls, fileAtStart, runs>>

\* lines 218-228: best-effort equity snapshot; e = None is a failed or empty query
EquitySnapshot ==
    /\ pc = "equity"
    /\ pc' = "endcheck"
    /\ IF IsNone(state.initial_equity_hkd)
       THEN \E e \in EquityChoices : state' = [state EXCEPT !.initial_equity_hkd = e]
       ELSE state' = state
    /\ UNCHANGED <<prev, k, clock, file, tmp, book, args, start_ts, cycleLocals,
                   actions, msg, out, outcome, calls, fileAtStart, runs>>

\* line 231: now_ts() >= int(state["end_ts"])
EndCheck ==
    /\ pc = "endcheck"
    /\ pc' = IF clock >= state.end_ts THEN "final" ELSE "kline"
    /\ UNCHANGED <<prev, k, clock, file, tmp, book, args, state, start_ts, cycleLocals,
                   actions, msg, out, outcome, calls, fileAtStart, runs>>

\* lines 253-254: return_pct when init_eq and equity are both truthy
ReturnPct(init_eq, equity) ==
    IF Truthy(init_eq) /\ Truthy(equity)
    THEN Some([n |-> (Val(equity) - Val(init_eq)) * 100, d |-> Val(init_eq)])
    ELSE None

\* lines 232-254: final equity (best-effort) and the END_OF_TEST message
FinalEquity ==
    /\ pc = "final"
    /\ pc' = "save_open"
    /\ \E e \in FinalEquityChoices :
        msg' = Some([event |-> "END_OF_TEST",
                     start |-> start_ts,
                     end |-> state.end_ts,
                     initial_equity_hkd |-> state.initial_equity_hkd,
                     final_equity_hkd |-> e,
                     return_pct |-> ReturnPct(state.initial_equity_hkd, e)])
    /\ UNCHANGED <<prev, k, clock, file, tmp, book, args, state, start_ts, cycleLocals,
                   actions, out, outcome, calls, fileAtStart, runs>>

(***************************************************************************)
(* main(): the active cycle, lines 259-353.                                *)
(***************************************************************************)
\* lines 260-268: the kline and the three levels
GetKline ==
    /\ pc = "kline"
    /\ pc' = "last"
    /\ \E lv \in LevelChoices : levels' = lv
    /\ UNCHANGED <<prev, k, clock, file, tmp, book, args, state, start_ts, last_price, lot,
                   holding_qty, avg_cost, orders, buckets, bi,
                   actions, msg, out, outcome, calls, fileAtStart, runs>>

\* line 270
GetLastPrice ==
    /\ pc = "last"
    /\ pc' = "lot"
    /\ \E p \in LastPriceChoices : last_price' = p
    /\ UNCHANGED <<prev, k, clock, file, tmp, book, args, state, start_ts, levels, lot,
                   holding_qty, avg_cost, orders, buckets, bi,
                   actions, msg, out, outcome, calls, fileAtStart, runs>>

\* line 271
GetLotSize ==
    /\ pc = "lot"
    /\ pc' = "pos"
    /\ \E l \in LotChoices : lot' = l
    /\ UNCHANGED <<prev, k, clock, file, tmp, book, args, state, start_ts, levels, last_price,
                   holding_qty, avg_cost, orders, buckets, bi,
                   actions, msg, out, outcome, calls, fileAtStart, runs>>

\* lines 274, 277-283: the position row, its qty and cost_price
ListPositions ==
    /\ pc = "pos"
    /\ pc' = "orders"
    /\ \E p \in PositionChoices :
        /\ holding_qty' = p.qty
        /\ avg_cost' = p.cost
    /\ UNCHANGED <<prev, k, clock, file, tmp, book, args, state, start_ts, levels, last_price,
                   lot, orders, buckets, bi,
                   actions, msg, out, outcome, calls, fileAtStart, runs>>

\* where main() goes after the buy loop (line 324) and after TP2 (line 345)
AfterBuys == IF SellRuleApplies(holding_qty, avg_cost) THEN "tp1" ELSE "save_open"
AfterTp2 ==
    IF TrailFires(state, holding_qty, lot, last_price) THEN "trail" ELSE "save_open"

\* a variant of ListOrders whose filter on the code keeps no row of the list
ListOrdersEmpty ==
    /\ pc = "orders"
    /\ orders' = << >>
    /\ actions' = << >>
    /\ state' = TrackMax(state, holding_qty, last_price)
    /\ buckets' = Buckets(levels, args.budget)
    /\ bi' = 1
    /\ pc' = IF Len(buckets') > 0 THEN "buy" ELSE AfterBuys
    /\ UNCHANGED <<prev, k, clock, file, tmp, book, args, start_ts, levels, last_price, lot,
                   holding_qty, avg_cost, msg, out, outcome, calls, fileAtStart, runs>>

\* lines 275, 285-310: the order snapshot, the peak, the buckets
ListOrders ==
    /\ pc = "orders"
    /\ orders' = book
    /\ actions' = << >>
    /\ state' = TrackMax(state, holding_qty, last_price)
    /\ buckets' = Buckets(levels, args.budget)
    /\ bi' = 1
    /\ pc' = IF Len(buckets') > 0 THEN "buy" ELSE AfterBuys
    /\ UNCHANGED <<prev, k, clock, file, tmp, book, args, start_ts, levels, last_price, lot,
                   holding_qty, avg_cost, msg, out, outcome, calls, fileAtStart, runs>>

LegPcs == {"buy", "tp1", "tp2", "trail"}

\* the order main() is about to ask for at a leg; `ensure` says whether it goes
\* through ensure_order (buys, TP1, TP2) or straight to place_limit (trailing stop)
PendingLeg ==
    CASE pc = "buy" ->
            [leg |-> buckets[bi].names, side |-> "BUY", qty |-> BuyQty(buckets[bi], lot),
             price |-> buckets[bi].px, ensure |-> TRUE]
      [] pc = "tp1" ->
            [leg |-> <<"TP1">>, side |-> "SELL", qty |-> OneThird(holding_qty, lot),
             price |-> TakeProfit1(avg_cost), ensure |-> TRUE]
      [] pc = "tp2" ->
            [leg |-> <<"TP2">>, side |-> "SELL", qty |-> OneThird(holding_qty, lot),
             price |-> TakeProfit2(avg_cost), ensure |-> TRUE]
      [] pc = "trail" ->
            [leg |-> <<"TRAIL_STOP">>, side |-> "SELL", qty |-> Remaining(holding_qty, lot),
             price |-> TrailPx(last_price), ensure |-> FALSE]

\* the leg reaches place_limit
WillPlace ==
    /\ pc \in LegPcs
    /\ PendingLeg.ensure =>
          ensure_order(orders, PendingLeg.side, PendingLeg.qty, PendingLeg.price, PriceTol) = "place"

\* the position after the leg at pc
NextPc ==
    CASE pc = "buy" -> IF bi < Len(buckets) THEN "buy" ELSE AfterBuys
      [] pc = "tp1" -> "tp2"
      [] pc = "tp2" -> AfterTp2
      [] pc = "trail" -> "save_open"

Call(p, res) ==
    [leg |-> p.leg, side |-> p.side, qty |-> p.qty, price |-> p.price, res |-> res]

\* the place_order calls the venue accepted
Accepted(cs) == SelectSeq(cs, LAMBDA c : c.res = "ok")

\* the entry main() appends to `actions` for a placed order (lines 186, 321, 334, 337, 351)
RecordPlaced(acts, p) ==
    Append(acts, [leg |-> p.leg, info |-> "PLACED", side |-> p.side, qty |-> p.qty, price |-> p.price])

\* a variant of RecordFailed that drops the rejection
RecordFailedDropped(acts, p) == acts

\* the entry main() appends for a venue rejection, ret != 0 (lines 184, 321, 334, 337, 353)
RecordFailed(acts, p) ==
    Append(acts, [leg |-> p.leg, info |-> "FAILED", side |-> p.side, qty |-> p.qty, price |-> p.price])

\* ensure_order returns (False, "exists") or (False, "qty<=0"): nothing is asked of the venue
LegSatisfied ==
    /\ pc \in LegPcs
    /\ ~WillPlace
    /\ pc' = NextPc
    /\ bi' = bi + 1
    /\ UNCHANGED <<prev, k, clock, file, tmp, book, args, state, start_ts, levels, last_price, lot,
                   holding_qty, avg_cost, orders, buckets,
                   actions, msg, out, outcome, calls, fileAtStart, runs>>

\* place_order returns ret == 0: the venue lists the new order
LegPlaced ==
    /\ WillPlace
    /\ Len(book) < MaxBook
    /\ book' = place_limit(book, PendingLeg.side, PendingLeg.qty, PendingLeg.price)
    /\ actions' = RecordPlaced(actions, PendingLeg)
    /\ calls' = Append(calls, Call(PendingLeg, "ok"))
    /\ pc' = NextPc
    /\ bi' = bi + 1
    /\ UNCHANGED <<prev, k, clock, file, tmp, args, state, start_ts, levels, last_price, lot,
                   holding_qty, avg_cost, orders, buckets,
                   msg, out, outcome, fileAtStart, runs>>

\* place_order returns ret != 0: the venue rejects
LegRejected ==
    /\ WillPlace
    /\ actions' = RecordFailed(actions, PendingLeg)
    /\ calls' = Append(calls, Call(PendingLeg, "rejected"))
    /\ pc' = NextPc
    /\ bi' = bi + 1
    /\ UNCHANGED <<prev, k, clock, file, tmp, book, args, state, start_ts, levels, last_price, lot,
                   holding_qty, avg_cost, orders, buckets,
                   msg, out, outcome, fileAtStart, runs>>

(***************************************************************************)
(* main(): persist and report, lines 255-256 and 355-369.                  *)
(***************************************************************************)
SaveOpen ==
    /\ pc = "save_open"
    /\ pc' = "save_dump"
    /\ file' = save_open(file, tmp, state).file
    /\ tmp' = save_open(file, tmp, state).tmp
    /\ UNCHANGED <<prev, k, clock, book, args, state, start_ts, cycleLocals,
                   actions, msg, out, outcome, calls, fileAtStart, runs>>

SaveDump ==
    /\ pc = "save_dump"
    /\ pc' = "save_replace"
    /\ file' = save_dump(file, tmp, state).file
    /\ tmp' = save_dump(file, tmp, state).tmp
    /\ UNCHANGED <<prev, k, clock, book, args, state, start_ts, cycleLocals,
                   actions, msg, out, outcome, calls, fileAtStart, runs>>

SaveReplace ==
    /\ pc = "save_replace"
    /\ pc' = IF IsNone(msg) THEN "emit" ELSE "report"
    /\ file' = save_replace(file, tmp).file
    /\ tmp' = save_replace(file, tmp).tmp
    /\ UNCHANGED <<prev, k, clock, book, args, state, start_ts, cycleLocals,
                   actions, msg, out, outcome, calls, fileAtStart, runs>>

\* line 256: print("STRATEGY_RESULT", ...) and return
PrintResult ==
    /\ pc = "report"
    /\ pc' = "exit"
    /\ outcome' = "returned"
    /\ out' = Append(out, Val(msg))
    /\ UNCHANGED <<prev, k, clock, file, tmp, book, args, state, start_ts, cycleLocals,
                   actions, msg, calls, fileAtStart, runs>>

\* lines 357-369: the action summary, or silence
Summary(acts, last) == [event |-> "BABA_STRATEGY_ACTION", last |-> last, actions |-> acts]

\* a variant of EmitSummary that prints the summary also when nothing was done
EmitSummaryAlways ==
    /\ pc = "emit"
    /\ pc' = "exit"
    /\ outcome' = "returned"
    /\ out' = Append(out, Summary(actions, last_price))
    /\ UNCHANGED <<prev, k, clock, file, tmp, book, args, state, start_ts, cycleLocals,
                   actions, msg, calls, fileAtStart, runs>>

EmitSummary ==
    /\ pc = "emit"
    /\ pc' = "exit"
    /\ outcome' = "returned"
    /\ out' = IF Len(actions) > 0 THEN Append(out, Summary(actions, last_price)) ELSE out
    /\ UNCHANGED <<prev, k, clock, file, tmp, book, args, state, start_ts, cycleLocals,
                   actions, msg, calls, fileAtStart, runs>>

(***************************************************************************)
(* Failure and environment.                                                *)
(***************************************************************************)
\* the positions at which the next statement is a collaborator call that raises
\* on a transport failure
RaisingPcs == {"acc", "kline", "last", "lot", "pos", "orders"}

\* the memory of the process is lost (the history `calls` apart)
Forgotten ==
    /\ args' = [budget |-> 0]
    /\ state' = EmptyState
    /\ start_ts' = 0
    /\ k' = << >>
    /\ levels' = NoLevels
    /\ last_price' = 0
    /\ lot' = 0
    /\ holding_qty' = 0
    /\ avg_cost' = None
    /\ orders' = << >>
    /\ buckets' = << >>
    /\ bi' = 0
    /\ actions' = << >>
    /\ msg' = None
    /\ out' = << >>

\* a variant of Raise whose handler persists the in-memory state before leaving
RaiseAfterSave ==
    /\ pc \in RaisingPcs \/ WillPlace
    /\ pc' = "exit"
    /\ outcome' = "raised"
    /\ calls' = IF pc \in LegPcs THEN Append(calls, Call(PendingLeg, "raised")) ELSE calls
    /\ file' = Full(state)
    /\ Forgotten
    /\ UNCHANGED <<prev, k, clock, tmp, book, fileAtStart, runs>>

\* a collaborator call raises: the exception leaves main() through the
\* finally of lines 371-372, save_state is not reached
Raise ==
    /\ pc \in RaisingPcs \/ WillPlace
    /\ pc' = "exit"
    /\ outcome' = "raised"
    /\ calls' = IF pc \in LegPcs THEN Append(calls, Call(PendingLeg, "raised")) ELSE calls
    /\ Forgotten
    /\ UNCHANGED <<prev, k, clock, file, tmp, book, fileAtStart, runs>>

\* the process is killed between two steps; with `record` the history keeps
\* what an active cycle had read and placed when it is killed before os.replace
\* has run
KillStep(record) ==
    /\ pc \notin {"idle", "exit"}
    /\ pc' = "exit"
    /\ outcome' = "killed"
    /\ calls' = << >>
    /\ prev' = IF record /\ pc \in LegPcs \cup {"save_open", "save_dump", "save_replace"}
                  /\ IsNone(msg) /\ Accepted(calls) # << >>
               THEN [killed |-> TRUE, budget |-> args.budget, levels |-> levels, lot |-> lot,
                     holding_qty |-> holding_qty, avg_cost |-> avg_cost,
                     placed |-> Accepted(calls)]
               ELSE NoPrev
    /\ Forgotten
    /\ UNCHANGED <<k, clock, file, tmp, book, fileAtStart, runs>>

Kill == KillStep(FALSE)

KillRecorded == KillStep(TRUE)

\* the process has ended: only the files, the venue and the clock remain
Exit ==
    /\ pc = "exit"
    /\ pc' = "idle"
    /\ outcome' = "none"
    /\ fileAtStart' = Absent
    /\ calls' = << >>
    /\ prev' = IF outcome = "killed" THEN prev ELSE NoPrev
    /\ Forgotten
    /\ UNCHANGED <<k, clock, file, tmp, book, runs>>

\* time passes (between invocations, or before line 231 reads the clock)
Tick ==
    /\ pc \in {"idle", "endcheck"}
    /\ clock < T0 + MaxTicks * DaySeconds
    /\ clock' = clock + DaySeconds
    /\ UNCHANGED <<prev, k, file, tmp, book, pc, args, state, start_ts, cycleLocals,
                   actions, msg, out, outcome, calls, fileAtStart, runs>>

\* between invocations the venue fills an active order
VenueFill ==
    /\ pc = "idle"
    /\ \E i \in 1..Len(book) :
        /\ book[i].order_status \in ActiveStatuses
        /\ book' = [book EXCEPT ![i].order_status = "FILLED_ALL"]
    /\ UNCHANGED <<prev, k, clock, file, tmp, pc, args, state, start_ts, cycleLocals,
                   actions, msg, out, outcome, calls, fileAtStart, runs>>

\* the steps of the program
ProgramNext ==
    \/ Invoke \/ GetAccId \/ EquitySnapshot \/ EndCheck \/ FinalEquity
    \/ GetKline \/ GetLastPrice \/ GetLotSize \/ ListPositions \/ ListOrders
    \/ LegSatisfied \/ LegPlaced \/ LegRejected
    \/ SaveOpen \/ SaveDump \/ SaveReplace \/ PrintResult \/ EmitSummary
    \/ Raise \/ Exit

\* the program, killed or not, and the clock
Next == ProgramNext \/ Kill \/ Tick

Spec == Init /\ [][Next]_vars

\* the same with the history of killed cycles kept for the next invocation
CrashNext == ProgramNext \/ KillRecorded \/ Tick

CrashSpec == Init /\ [][CrashNext]_vars

\* the same with a venue that fills orders between invocations
VenueNext == Next \/ VenueFill

VenueSpec == Init /\ [][VenueNext]_vars

(***************************************************************************)
(* One cycle from the end of the data reads, over wider inputs: the        *)
(* quantities and prices of the legs for more budgets, lots, positions     *)
(* and prices than Spec affords over several invocations.                  *)
(***************************************************************************)
WideBudgetChoices == {0, 5000, 1000000}
WideLotChoices == {1, 100, 400}
WideLastChoices == {6, 11300, 12000}
WideQtyChoices == {0, 100, 250, 900, 950}
WideCostChoices == {None, Some(0), Some(40), Some(10000)}
WidePeakChoices == {None, Some(12000)}

CycleInit ==
    /\ clock = T0
    /\ \E m \in WidePeakChoices :
        /\ state = [NewState(T0, 1) EXCEPT !.max_price_since_entry = m]
        /\ file = Full(state)
        /\ fileAtStart = file
    /\ tmp = Absent
    /\ book \in WideBooks
    /\ pc = "orders"
    /\ args \in [budget : WideBudgetChoices]
    /\ start_ts = T0
    /\ k = << >>
    /\ levels \in WideLevelChoices
    /\ last_price \in WideLastChoices
    /\ lot \in WideLotChoices
    /\ holding_qty \in WideQtyChoices
    /\ avg_cost \in WideCostChoices
    /\ orders = << >>
    /\ buckets = << >>
    /\ bi = 0
    /\ actions = << >>
    /\ msg = None
    /\ out = << >>
    /\ outcome = "none"
    /\ calls = << >>
    /\ runs = 1
    /\ prev = NoPrev

CycleNext ==
    \/ ListOrders \/ LegSatisfied \/ LegPlaced \/ LegRejected
    \/ SaveOpen \/ SaveDump \/ SaveReplace \/ EmitSummary
    \/ Raise \/ Exit

CycleSpec == CycleInit /\ [][CycleNext]_vars

(***************************************************************************)
(* The level calculator on its own (lines 260-268): main() holds a kline   *)
(* and derives the three levels from it.  The bars have distinct time      *)
(* keys, as the daily bars of one code have.                               *)
(***************************************************************************)
\* n bars with time keys 1..n: the low is 10000 but for bar p (9000), the
\* close 9500 but for bar q (9700); p = 0 or q = 0 is no such bar
SpikeBars(n, p, q) ==
    [i \in 1..n |-> Bar(i, IF i = p THEN 9000 ELSE 10000, IF i = q THEN 9700 ELSE 9500)]

\* the lengths around the three periods
LevelLens == {1, 19, 20, 21, 49, 50, 51, 199, 200, 201}

\* the places of the spike: none, the newest bar, and the bars just inside
\* and just outside each period
SpikePlaces(n) == {0, n} \cup ({n - 19, n - 20, n - 49, n - 50, n - 199, n - 200} \cap (1..n))

\* the klines the venue returns: in ascending or in descending time order
LevelKlines ==
    UNION { UNION { {SpikeBars(n, p, p), Reverse(SpikeBars(n, p, p))} : p \in SpikePlaces(n) }
            : n \in LevelLens }

LevelInit ==
    /\ clock = T0
    /\ file = Absent
    /\ tmp = Absent
    /\ book = << >>
    /\ pc = "levels"
    /\ args = [budget |-> 0]
    /\ state = NewState(T0, 1)
    /\ start_ts = T0
    /\ k \in LevelKlines
    /\ levels = NoLevels
    /\ last_price = 0
    /\ lot = 0
    /\ holding_qty = 0
    /\ avg_cost = None
    /\ orders = << >>
    /\ buckets = << >>
    /\ bi = 0
    /\ actions = << >>
    /\ msg = None
    /\ out = << >>
    /\ outcome = "none"
    /\ calls = << >>
    /\ fileAtStart = Absent
    /\ runs = 1
    /\ prev = NoPrev

\* lines 261-268: the three levels of the kline main() holds
ComputeLevels ==
    /\ pc = "levels"
    /\ pc' = "last"
    /\ levels' = Levels(k)
    /\ UNCHANGED <<prev, k, clock, file, tmp, book, args, state, start_ts, last_price, lot,
                   holding_qty, avg_cost, orders, buckets, bi,
                   actions, msg, out, outcome, calls, fileAtStart, runs>>

LevelSpec == LevelInit /\ [][ComputeLevels]_vars

(***************************************************************************)
(* Properties.                                                             *)
(***************************************************************************)
IsPrefix(a, b) == Len(a) <= Len(b) /\ SubSeq(b, 1, Len(a)) = a

\* the snapshot holds an active order with the side, quantity and price of p
SameActive(ords, p) ==
    \E i \in 1..Len(ords) :
        /\ ords[i].order_status \in ActiveStatuses
        /\ ords[i].trd_side = p.side
        /\ ords[i].qty = p.qty
        /\ ords[i].price = p.price

\* the snapshot holds an active order of p's side priced within the tolerance of p
WithinTol(ords, p) ==
    \E i \in 1..Len(ords) :
        /\ ords[i].order_status \in ActiveStatuses
        /\ ords[i].trd_side = p.side
        /\ Abs(ords[i].price - p.price) <= PriceTol

\* the max_price_since_entry the state file holds (null when there is no file)
PersistedMax == IF file.kind = "full" THEN file.data.max_price_since_entry ELSE None

\* C1: ensure_order is idempotent: when the order snapshot already holds an
\* active order with the same side, quantity (> 0) and price as the desired
\* order (the one an earlier identical call placed), the call places nothing:
\* the venue's list is unchanged and no place_order call is made.
C1_EnsureIdempotent ==
    [][(/\ pc \in LegPcs
        /\ PendingLeg.ensure
        /\ PendingLeg.qty > 0
        /\ SameActive(orders, PendingLeg))
       => (book' = book /\ Len(calls') <= Len(calls))]_vars

\* C1 witness: a second invocation ended with no place_order call while its
\* snapshot held the buy order of its first bucket, which only an earlier
\* invocation can have placed.
C1_Witness ==
    /\ runs = 2
    /\ pc = "emit"
    /\ calls = << >>
    /\ Len(buckets) > 0
    /\ \E i \in 1..Len(orders) :
        orders[i] = Order("BUY", BuyQty(buckets[1], lot), buckets[1].px, "SUBMITTED")

\* C2: tolerance: whenever the snapshot holds an active order of the desired
\* side whose price is within the tolerance (0.05) of the desired price,
\* ensure_order reports "exists", nothing is placed and nothing is logged.
C2_Tolerance ==
    [][(/\ pc \in LegPcs
        /\ PendingLeg.ensure
        /\ WithinTol(orders, PendingLeg))
       => (/\ ensure_order(orders, PendingLeg.side, PendingLeg.qty, PendingLeg.price, PriceTol) = "exists"
           /\ book' = book
           /\ Len(calls') <= Len(calls)
           /\ Len(actions') <= Len(actions))]_vars

\* C2 witness: a cycle ended without a BUY call at a bucket's price while the
\* snapshot held an active BUY at a different price within the tolerance of it.
C2_Witness ==
    /\ pc = "emit"
    /\ \E j \in 1..Len(buckets), i \in 1..Len(orders) :
        /\ orders[i].order_status \in ActiveStatuses
        /\ orders[i].trd_side = "BUY"
        /\ orders[i].price # buckets[j].px
        /\ Abs(orders[i].price - buckets[j].px) <= PriceTol
        /\ \A c \in 1..Len(calls) :
              ~(calls[c].side = "BUY" /\ calls[c].price = buckets[j].px)

\* C3: end of run: an invocation that finds now >= end_time makes no
\* place_order call, prints only the END_OF_TEST report, and the report holds
\* return_pct exactly when the initial and the final equity are both known.
C3_EndOfRunReport ==
    (pc = "exit" /\ outcome = "returned" /\ clock >= state.end_ts)
    => (/\ calls = << >>
        /\ out = <<Val(msg)>>
        /\ Val(msg).event = "END_OF_TEST"
        /\ (~IsNone(Val(msg).return_pct)
              <=> (~IsNone(Val(msg).initial_equity_hkd) /\ ~IsNone(Val(msg).final_equity_hkd))))

\* C4: peak monotonicity: the persisted max_price_since_entry changes only
\* when an active cycle persists its state; with a position held it becomes
\* max(stored value or last price, last price), never below the stored value,
\* and with no position it becomes null.
C4_PeakMonotone ==
    [][IF pc = "save_replace" /\ pc' = "emit"
       THEN IF holding_qty > 0
            THEN /\ PersistedMax' =
                      Some(Max(IF IsNone(PersistedMax) THEN last_price ELSE Val(PersistedMax),
                               last_price))
                 /\ ~IsNone(PersistedMax) => Val(PersistedMax') >= Val(PersistedMax)
            ELSE PersistedMax' = None
       ELSE PersistedMax' = PersistedMax]_vars

\* C4 witness: a second cycle with a position held has persisted a peak above
\* its last price, the peak an earlier cycle stored.
C4_Witness ==
    /\ runs = 2
    /\ pc = "emit"
    /\ holding_qty > 0
    /\ ~IsNone(PersistedMax)
    /\ Val(PersistedMax) > last_price

\* C5: lot alignment: the quantity of every order the driver desires at a leg,
\* and of every place_order call it has made, is a non-negative multiple of
\* the lot size.
C5_LotAligned ==
    /\ pc \in LegPcs => (PendingLeg.qty >= 0 /\ PendingLeg.qty % lot = 0)
    /\ pc \notin {"idle", "exit"} =>
          \A i \in 1..Len(calls) : calls[i].qty >= 0 /\ calls[i].qty % lot = 0

\* C5 witness: with a holding that is no lot multiple the trailing stop was
\* called for a quantity floored below holding - 2 * tranche.
C5_Witness ==
    /\ pc = "save_open"
    /\ holding_qty % lot # 0
    /\ \E i \in 1..Len(calls) :
        /\ calls[i].leg = <<"TRAIL_STOP">>
        /\ calls[i].qty < holding_qty - 2 * OneThird(holding_qty, lot)

\* C6: additive only: no step of an invocation cancels or modifies an order
\* of the venue's list; a step leaves the list as it is or appends the order
\* of the leg being placed.
C6_AdditiveOnly ==
    [][(pc # "idle" \/ pc' # "idle")
       => \/ book' = book
          \/ /\ pc \in LegPcs
             /\ book' = Append(book, Order(PendingLeg.side, PendingLeg.qty,
                                           PendingLeg.price, "SUBMITTED"))]_vars

\* C6 witness: a cycle that found orders at the venue has added to them, and
\* the orders it found are still listed unchanged.
C6_Witness ==
    /\ pc = "emit"
    /\ Len(orders) > 0
    /\ Len(book) > Len(orders)
    /\ IsPrefix(orders, book)

\* C7: the trailing stop always submits: at the end of the legs of an active
\* cycle with a held position, remaining >= one lot and last_price <= 0.95 *
\* max_price_since_entry, a protective SELL for the remaining quantity has
\* been submitted.
C7_TrailAlwaysSubmits ==
    (/\ pc = "save_open"
     /\ IsNone(msg)
     /\ holding_qty > 0
     /\ Remaining(holding_qty, lot) >= lot
     /\ ~IsNone(state.max_price_since_entry)
     /\ 100 * last_price <= 95 * Val(state.max_price_since_entry))
    => \E i \in 1..Len(calls) :
          /\ calls[i].leg = <<"TRAIL_STOP">>
          /\ calls[i].side = "SELL"
          /\ calls[i].qty = Remaining(holding_qty, lot)

\* C8: a venue rejection does not halt the cycle: the step that gets the
\* rejection appends a FAILED entry to the action log and goes on to the next
\* leg as after a success; and once a cycle is past save_state the state file
\* holds the state and every rejection of the cycle is in the action log.
C8_RejectionContinues ==
    /\ [][(pc \in LegPcs /\ calls' = Append(calls, Call(PendingLeg, "rejected")))
          => (/\ actions' = Append(actions,
                                   [leg |-> PendingLeg.leg, info |-> "FAILED",
                                    side |-> PendingLeg.side, qty |-> PendingLeg.qty,
                                    price |-> PendingLeg.price])
              /\ pc' = NextPc
              /\ outcome' = "none")]_vars
    /\ [](pc = "emit"
          => (/\ file = Full(state)
              /\ \A i \in 1..Len(calls) :
                    calls[i].res = "rejected"
                    => \E j \in 1..Len(actions) :
                          actions[j].info = "FAILED" /\ actions[j].leg = calls[i].leg))

\* C8 witness: a cycle whose first placement was rejected went on to place a
\* later leg's order and has persisted its state.
C8_Witness ==
    /\ pc = "emit"
    /\ Len(calls) >= 2
    /\ calls[1].res = "rejected"
    /\ calls[2].res = "ok"
    /\ Len(actions) = Len(calls)
    /\ file = Full(state)

\* C9: a transport failure aborts without persisting: when an invocation has
\* ended by a raised collaborator call the state file is what it was when the
\* invocation started.
C9_RaiseKeepsState ==
    (pc = "exit" /\ outcome = "raised") => file = fileAtStart

\* C9 witness: an invocation placed an order, then a later placement raised,
\* and the state file is the complete state of an earlier invocation.
C9_Witness ==
    /\ pc = "exit"
    /\ outcome = "raised"
    /\ Len(calls) >= 2
    /\ calls[1].res = "ok"
    /\ calls[Len(calls)].res = "raised"
    /\ file.kind = "full"

\* C10: atomic persistence: the state file is never a partial document, and
\* it changes only in the os.replace step, to the complete new state; so a
\* kill at any step of save_state leaves the previous or the new state.
C10_AtomicSave ==
    /\ [](file.kind # "partial")
    /\ [][file' # file => (pc = "save_replace" /\ file' = Full(state))]_vars

\* C10 witness: the process was killed inside save_state, with the temporary
\* file still incomplete, and the state file holds a complete state.
C10_Witness ==
    /\ pc = "exit"
    /\ outcome = "killed"
    /\ tmp.kind = "partial"
    /\ file.kind = "full"

\* the initial_equity_hkd the state file holds (null when there is no file)
PersistedEquity == IF file.kind = "full" THEN file.data.initial_equity_hkd ELSE None

\* C11 as stated: a non-null persisted initial_equity never changes, and the
\* first invocation whose account read succeeds after the start sets it: an
\* invocation that started from a state file with a null initial_equity, read
\* the account successfully and has ended by itself leaves the value it read in
\* the state file.
C11_SetByFirstRead ==
    [][/\ ~IsNone(PersistedEquity) => PersistedEquity' = PersistedEquity
       /\ (/\ pc \notin {"idle", "exit"}
           /\ pc' = "exit"
           /\ outcome' \in {"returned", "raised"}
           /\ fileAtStart.kind = "full"
           /\ IsNone(fileAtStart.data.initial_equity_hkd)
           /\ ~IsNone(state.initial_equity_hkd))
          => PersistedEquity' = state.initial_equity_hkd]_vars

\* C11 amended: a non-null persisted initial_equity never changes; the
\* persisted value changes only in the os.replace of save_state, to the value
\* the invocation holds; and every invocation that is past save_state has
\* persisted the value it holds.  So it is set by the first invocation whose
\* account read succeeds and that reaches save_state.
C11_EquitySetOnce ==
    /\ [][~IsNone(PersistedEquity) => PersistedEquity' = PersistedEquity]_vars
    /\ [][PersistedEquity' # PersistedEquity
          => (pc = "save_replace" /\ PersistedEquity' = state.initial_equity_hkd)]_vars
    /\ [](pc \in {"emit", "report"} => PersistedEquity = state.initial_equity_hkd)

\* C11 witness: a second invocation, started from a state file whose
\* initial_equity an earlier invocation set, has saved its state and the file
\* holds that same value.
C11_Witness ==
    /\ runs = 2
    /\ pc \in {"emit", "report"}
    /\ fileAtStart.kind = "full"
    /\ ~IsNone(fileAtStart.data.initial_equity_hkd)
    /\ PersistedEquity = fileAtStart.data.initial_equity_hkd

\* C12: the terminal state is read-only: when an invocation that found
\* now >= end_time has returned, the persisted run state (start, end,
\* max_price_since_entry, initial_equity, notes) is what it was when the
\* invocation started (stated for invocations that found a state file).
C12_TerminalReadOnly ==
    (/\ pc = "exit"
     /\ outcome = "returned"
     /\ ~IsNone(msg)
     /\ fileAtStart.kind = "full")
    => (file.kind = "full" /\ file.data = fileAtStart.data)

\* C13: silence on no-op cycles: an active cycle that has returned has printed
\* the action summary, once and with one entry per placement attempt, if and
\* only if it made at least one placement attempt (placed or rejected by the
\* venue); a cycle with no attempt has printed nothing.
C13_SilentNoOp ==
    (pc = "exit" /\ outcome = "returned" /\ IsNone(msg))
    => IF Len(calls) > 0
       THEN /\ Len(out) = 1
            /\ out[1].event = "BABA_STRATEGY_ACTION"
            /\ Len(out[1].actions) = Len(calls)
            /\ \A i \in 1..Len(calls) :
                  /\ calls[i].res \in {"ok", "rejected"}
                  /\ out[1].actions[i].leg = calls[i].leg
                  /\ out[1].actions[i].info = IF calls[i].res = "ok" THEN "PLACED" ELSE "FAILED"
       ELSE out = << >>

\* C13 witness: an active cycle with buy tranches to maintain found every
\* desired order already at the venue, attempted nothing and returned silent.
C13_Witness ==
    /\ pc = "exit"
    /\ outcome = "returned"
    /\ IsNone(msg)
    /\ Len(buckets) > 0
    /\ \A j \in 1..Len(buckets) : Exists(orders, "BUY", buckets[j].px, PriceTol)
    /\ calls = << >>
    /\ out = << >>

\* the bars of a kline that are among its n newest by time key
NewestBars(kl, n) ==
    LET bars == {kl[i] : i \in 1..Len(kl)}
    IN  {b \in bars : Cardinality({c \in bars : c.time_key > b.time_key}) < n}

\* the least low of a non-empty set of bars
LeastLow(bars) == CHOOSE m \in {b.low : b \in bars} : \A b \in bars : m <= b.low

RECURSIVE CloseSum(_)
CloseSum(bars) ==
    IF bars = {} THEN 0
    ELSE LET b == CHOOSE x \in bars : TRUE IN b.close + CloseSum(bars \ {b})

\* C14: level calculator: for N in {20, 50}, low_N is null when the kline has
\* fewer than N bars and otherwise the minimum low of exactly its N newest
\* bars; sma_200 is null when it has fewer than 200 bars and otherwise the
\* arithmetic mean of the close of exactly its 200 newest bars.
C14_Levels ==
    pc = "last" =>
        /\ \A n \in {20, 50} :
              LET l == IF n = 20 THEN levels.low20 ELSE levels.low50
              IN  IF Len(k) < n THEN IsNone(l)
                  ELSE /\ ~IsNone(l)
                       /\ Val(l).n = LeastLow(NewestBars(k, n)) * Val(l).d
        /\ IF Len(k) < 200 THEN IsNone(levels.sma200)
           ELSE /\ ~IsNone(levels.sma200)
                /\ Val(levels.sma200).n * 200 = CloseSum(NewestBars(k, 200)) * Val(levels.sma200).d

\* C14 witness: from 19 bars with low 100 and a newest bar with low 90 the
\* calculator has derived low20 = 90 and, with fewer than 50 bars, no low50.
C14_Witness ==
    /\ pc = "last"
    /\ k = SpikeBars(20, 20, 20)
    /\ levels.low20 = Some([n |-> 9000, d |-> 1])
    /\ IsNone(levels.low50)
    /\ IsNone(levels.sma200)

LevelNames == {"LOW20", "LOW50", "SMA200"}

\* the level of a name, and its share of the total budget in percent
LevelOf(lv, name) ==
    CASE name = "LOW20" -> lv.low20
      [] name = "LOW50" -> lv.low50
      [] name = "SMA200" -> lv.sma200

SharePct(name) == IF name = "LOW20" THEN 30 ELSE 35

\* the names of the non-null levels, and of those that round to a price
PresentNames(lv) == {nm \in LevelNames : ~IsNone(LevelOf(lv, nm))}

NamesAt(lv, px) ==
    {nm \in PresentNames(lv) :
        round_hk_price(Val(LevelOf(lv, nm)).n, Val(LevelOf(lv, nm)).d) = px}

RECURSIVE ShareSum(_)
ShareSum(names) ==
    IF names = {} THEN 0
    ELSE LET nm == CHOOSE x \in names : TRUE IN SharePct(nm) + ShareSum(names \ {nm})

\* C15: bucket merging: in every cycle there is exactly one bucket per
\* distinct rounded price of the non-null levels; a bucket's names are the
\* levels that round to its price, each once, and its budget the sum of their
\* shares (0.30 / 0.35 / 0.35 of the total); so the bucket budgets add up to
\* the shares of the non-null levels.
C15_BucketMerge ==
    pc \in LegPcs \cup {"save_open", "save_dump", "save_replace", "emit"} /\ IsNone(msg) =>
        /\ \A i, j \in 1..Len(buckets) : i # j => buckets[i].px # buckets[j].px
        /\ {buckets[j].px : j \in 1..Len(buckets)}
              = {round_hk_price(Val(LevelOf(levels, nm)).n, Val(LevelOf(levels, nm)).d)
                   : nm \in PresentNames(levels)}
        /\ \A j \in 1..Len(buckets) :
              /\ {buckets[j].names[i] : i \in 1..Len(buckets[j].names)} = NamesAt(levels, buckets[j].px)
              /\ Len(buckets[j].names) = Cardinality(NamesAt(levels, buckets[j].px))
              /\ buckets[j].budget = args.budget * ShareSum(NamesAt(levels, buckets[j].px))
        /\ SeqSum([j \in 1..Len(buckets) |-> buckets[j].budget])
              = args.budget * ShareSum(PresentNames(levels))

\* C15 witness: with a budget of 1,000,000, LOW50 and SMA200 both rounding to
\* 90.0 and LOW20 to another price, the cycle holds two buckets, one of them
\* at 90.0 with names LOW50 and SMA200 and a budget of 700,000.
C15_Witness ==
    /\ pc = "buy"
    /\ args.budget = 1000000
    /\ Len(buckets) = 2
    /\ \E j \in 1..Len(buckets) :
        /\ buckets[j].px = 9000
        /\ buckets[j].names = <<"LOW50", "SMA200">>
        /\ buckets[j].budget = 70000000

\* px (cents, a tick multiple) is pct/100 of cost rounded to the nearest tick
NearestTick(px, cost, pct) == px % 10 = 0 /\ Abs(100 * px - pct * cost) <= 500

\* m is q floored to a multiple of lt
FlooredToLot(m, q, lt) == m % lt = 0 /\ m <= q /\ q < m + lt

\* C16: sell-rule quantities: wherever the sell rule runs (held quantity > 0
\* and an average cost), take_profit_1 and take_profit_2 are the average cost
\* times 1.05 and 1.10 rounded to the tick, tranche_qty is the larger of one
\* lot and floor(quantity / 3) floored to a lot multiple, and remaining is
\* quantity - 2 * tranche_qty floored to a lot multiple; the legs ask for
\* these prices and quantities.
C16_SellQuantities ==
    pc \in {"tp1", "tp2", "trail"} =>
        LET t == OneThird(holding_qty, lot)
            r == Remaining(holding_qty, lot)
        IN  /\ holding_qty > 0 /\ ~IsNone(avg_cost)
            /\ NearestTick(TakeProfit1(avg_cost), Val(avg_cost), 105)
            /\ NearestTick(TakeProfit2(avg_cost), Val(avg_cost), 110)
            /\ \E f \in 0..holding_qty :
                  FlooredToLot(f, holding_qty \div 3, lot) /\ t = Max(lot, f)
            /\ FlooredToLot(r, holding_qty - 2 * t, lot)
            /\ pc = "tp1" => (PendingLeg.price = TakeProfit1(avg_cost) /\ PendingLeg.qty = t)
            /\ pc = "tp2" => (PendingLeg.price = TakeProfit2(avg_cost) /\ PendingLeg.qty = t)
            /\ pc = "trail" => PendingLeg.qty = r

\* C16 witness: with average cost 100, holding 900 and lot 100 the cycle has
\* asked for TP1 300 @ 105.0, TP2 300 @ 110.0 and a trailing stop for 300.
C16_Witness ==
    /\ pc = "save_open"
    /\ avg_cost = Some(10000)
    /\ holding_qty = 900
    /\ lot = 100
    /\ \E a, b, c \in 1..Len(calls) :
        /\ calls[a].leg = <<"TP1">> /\ calls[a].qty = 300 /\ calls[a].price = 10500
        /\ calls[b].leg = <<"TP2">> /\ calls[b].qty = 300 /\ calls[b].price = 11000
        /\ calls[c].leg = <<"TRAIL_STOP">> /\ calls[c].qty = 300

\* the invocation runs on the data of the invocation that was killed
SameData ==
    /\ prev.killed
    /\ args.budget = prev.budget
    /\ levels = prev.levels
    /\ lot = prev.lot
    /\ holding_qty = prev.holding_qty
    /\ avg_cost = prev.avg_cost

\* the venue's list shows every order the killed invocation placed as active
ShowsPlaced ==
    \A j \in 1..Len(prev.placed) :
        \E i \in 1..Len(book) :
            /\ book[i].order_status \in ActiveStatuses
            /\ book[i].trd_side = prev.placed[j].side
            /\ book[i].qty = prev.placed[j].qty
            /\ book[i].price = prev.placed[j].price

\* the buy-tranche and take-profit placements of the killed invocation
PlacedLegs ==
    {prev.placed[j].leg : j \in {i \in 1..Len(prev.placed) : prev.placed[i].leg # <<"TRAIL_STOP">>}}

\* C17: no duplicate after a crash: when the previous invocation was killed
\* after the venue accepted a buy-tranche or take-profit order and before it
\* saved state, an invocation that runs on the same levels, budget, lot and
\* position while the venue lists the placed orders as active makes no
\* place_order call for a tranche or leg the killed invocation placed.
C17_NoDuplicateAfterCrash ==
    (/\ pc \in LegPcs \cup {"save_open", "save_dump", "save_replace", "emit"}
     /\ IsNone(msg)
     /\ SameData
     /\ ShowsPlaced)
    => \A i \in 1..Len(calls) : calls[i].leg \notin PlacedLegs

\* C17 witness: the invocation after a kill ran on the same data, found the
\* killed invocation's buy and take-profit orders active and has saved its
\* state without a call for either.
C17_Witness ==
    /\ pc = "emit"
    /\ SameData
    /\ ShowsPlaced
    /\ <<"TP1">> \in PlacedLegs
    /\ \E l \in PlacedLegs : l # <<"TP1">> /\ l # <<"TP2">>
    /\ \A i \in 1..Len(calls) : calls[i].leg \notin PlacedLegs

\* the statuses the claim calls active: submitted, submitting, waiting,
\* partially filled, submit-failed
ClaimedActive ==
    {"SUBMITTED", "SUBMITTING", "WAITING_SUBMIT", "SUBMITTING_PART", "SUBMITTED_PART",
     "SUBMIT_FAILED"}

\* no order of the snapshot is active, of p's side and priced within the tolerance of p
NothingSuppresses(ords, p) ==
    ~\E i \in 1..Len(ords) :
        /\ ords[i].order_status \in ClaimedActive
        /\ ords[i].trd_side = p.side
        /\ Abs(ords[i].price - p.price) <= PriceTol

\* C18: only active same-side orders suppress placement: when ensure_order is
\* asked for a quantity > 0 and no order of the snapshot is active, of the
\* desired side and priced within the tolerance, the step makes exactly one
\* place_order call, for the desired side, quantity and price; orders of the
\* other side or with another status do not suppress it.
C18_OnlyActiveSameSide ==
    [][(/\ pc \in LegPcs
        /\ PendingLeg.ensure
        /\ PendingLeg.qty > 0
        /\ NothingSuppresses(orders, PendingLeg))
       => (/\ Len(calls') = Len(calls) + 1
           /\ SubSeq(calls', 1, Len(calls)) = calls
           /\ calls'[Len(calls')].side = PendingLeg.side
           /\ calls'[Len(calls')].qty = PendingLeg.qty
           /\ calls'[Len(calls')].price = PendingLeg.price)]_vars

\* C18 witness: the cycle has placed a take-profit SELL at a price at which
\* its snapshot held a filled SELL or an active BUY.
C18_Witness ==
    /\ pc = "save_open"
    /\ \E c \in 1..Len(calls), i \in 1..Len(orders) :
        /\ calls[c].side = "SELL"
        /\ calls[c].res = "ok"
        /\ orders[i].price = calls[c].price
        /\ \/ orders[i].trd_side = "SELL" /\ orders[i].order_status = "FILLED_ALL"
           \/ orders[i].trd_side = "BUY" /\ orders[i].order_status \in ActiveStatuses

\* C19: tranche quantity: the buy quantity of a bucket is floor(budget /
\* price) floored to a lot multiple, raised to exactly one lot only when that
\* is below one lot and the bucket's budget is positive; a bucket with zero
\* budget yields no one-lot order.
C19_TrancheQty ==
    pc = "buy" =>
        \E f \in 0..(buckets[bi].budget \div buckets[bi].px) :
            /\ FlooredToLot(f, buckets[bi].budget \div buckets[bi].px, lot)
            /\ PendingLeg.qty = IF f < lot /\ buckets[bi].budget > 0 THEN lot ELSE f

\* the accepted take-profit placements of the cycle
TakeProfitCalls ==
    {i \in 1..Len(calls) : calls[i].res = "ok" /\ calls[i].leg \in {<<"TP1">>, <<"TP2">>}}

\* C20: take-profit legs never duplicate: a cycle places no two take-profit
\* SELL orders priced within the tolerance of each other, and no take-profit
\* SELL within the tolerance of an active SELL its snapshot of the book held;
\* also when take_profit_1 and take_profit_2 round to the same tick.
C20_TakeProfitNoDuplicate ==
    /\ \A i, j \in TakeProfitCalls :
          i # j => Abs(calls[i].price - calls[j].price) > PriceTol
    /\ \A i \in TakeProfitCalls :
          \A o \in 1..Len(orders) :
              (orders[o].order_status \in ActiveStatuses /\ orders[o].trd_side = "SELL")
              => Abs(calls[i].price - orders[o].price) > PriceTol

\* the positions of an active cycle from the buy loop to the summary
CyclePcs == LegPcs \cup {"save_open", "save_dump", "save_replace", "emit"}

\* C21: null levels are skipped: in an active cycle no bucket names a null
\* level and no BUY call is made for one; the cycle does not fail on it; with
\* all three levels null there is no bucket and no BUY call, and the cycle
\* still runs the sell rule (each take-profit leg is called or is already at
\* the venue) and persists its state.
C21_NullLevelsSkipped ==
    (pc \in CyclePcs /\ IsNone(msg)) =>
        /\ outcome = "none"
        /\ \A j \in 1..Len(buckets) : \A i \in 1..Len(buckets[j].names) :
              buckets[j].names[i] \in PresentNames(levels)
        /\ \A c \in 1..Len(calls) :
              calls[c].side = "BUY"
              => \A i \in 1..Len(calls[c].leg) : calls[c].leg[i] \in PresentNames(levels)
        /\ PresentNames(levels) = {} =>
              /\ buckets = << >>
              /\ \A c \in 1..Len(calls) : calls[c].side # "BUY"
              /\ (pc = "emit" /\ SellRuleApplies(holding_qty, avg_cost)) =>
                    /\ \/ \E c \in 1..Len(calls) : calls[c].leg = <<"TP1">>
                       \/ Exists(orders, "SELL", TakeProfit1(avg_cost), PriceTol)
                    /\ \/ \E c \in 1..Len(calls) : calls[c].leg = <<"TP2">>
                       \/ Exists(orders, "SELL", TakeProfit2(avg_cost), PriceTol)
              /\ pc = "emit" => file = Full(state)

\* C21 witness: a cycle with no level known has made no BUY call, has placed
\* a take-profit SELL and has saved its state.
C21_Witness ==
    /\ pc = "emit"
    /\ PresentNames(levels) = {}
    /\ \A c \in 1..Len(calls) : calls[c].side # "BUY"
    /\ \E c \in 1..Len(calls) : calls[c].leg = <<"TP1">> /\ calls[c].res = "ok"
    /\ file = Full(state)

\* C22: the run window is fixed at creation: an invocation creates the run
\* state only when no start time is persisted, with start_time = now and
\* end_time = start_time + horizon days, and otherwise takes both from the
\* state file; no step of an invocation changes them afterwards, and a state
\* file that holds them never holds other values later.
C22_WindowFixed ==
    /\ [][(pc = "idle" /\ pc' = "acc")
          => IF file.kind = "full" /\ file.data.start_ts # 0
             THEN /\ state'.start_ts = file.data.start_ts
                  /\ state'.end_ts = file.data.end_ts
             ELSE /\ state'.start_ts = clock
                  /\ \E d \in DaysChoices : state'.end_ts = clock + d * DaySeconds]_vars
    /\ [][(pc \notin {"idle", "exit"} /\ pc' \notin {"idle", "exit"})
          => (state'.start_ts = state.start_ts /\ state'.end_ts = state.end_ts)]_vars
    /\ [][file.kind = "full"
          => (/\ file'.kind = "full"
              /\ file'.data.start_ts = file.data.start_ts
              /\ file'.data.end_ts = file.data.end_ts)]_vars

\* C22 witness: a day after the run state was created a second invocation has
\* saved its state, and the file holds the start and end it was created with.
C22_Witness ==
    /\ runs = 2
    /\ pc \in {"emit", "report"}
    /\ fileAtStart.kind = "full"
    /\ clock > fileAtStart.data.start_ts
    /\ file.kind = "full"
    /\ file.data.start_ts = fileAtStart.data.start_ts
    /\ file.data.end_ts = fileAtStart.data.end_ts

\* the place of a position in the sequence of an active cycle
StepRank(p) ==
    CASE p = "kline" -> 1
      [] p = "last" -> 2
      [] p = "lot" -> 3
      [] p = "pos" -> 4
      [] p = "orders" -> 5
      [] p = "buy" -> 6
      [] p = "tp1" -> 7
      [] p = "tp2" -> 8
      [] p = "trail" -> 9
      [] p = "save_open" -> 10
      [] p = "save_dump" -> 11
      [] p = "save_replace" -> 12
      [] p = "emit" -> 13
      [] OTHER -> 14

ActivePcs == {"kline", "last", "lot", "pos", "orders"} \cup CyclePcs

\* C23: fixed sequence within an active cycle: every step moves forward in
\* the order bars, price, lot, position, orders, buys, TP1, TP2, trailing
\* stop, save, summary (so each read and the save happen at most once, the
\* reads before any placement and the save after every placement and before
\* the summary); only the buy loop repeats, each time at a strictly lower
\* price; each read result changes only in its own step, place_order is
\* called only in the legs, the state file changes only in the save and
\* output is printed only in the summary step; TP1 is followed by TP2.
C23_FixedSequence ==
    [][(pc \in ActivePcs /\ IsNone(msg) /\ (pc' # pc \/ bi' # bi))
       => (/\ \/ StepRank(pc') > StepRank(pc)
              \/ /\ pc = "buy" /\ pc' = "buy"
                 /\ bi' = bi + 1
                 /\ buckets[bi'].px < buckets[bi].px
           /\ pc = "tp1" => pc' \in {"tp2", "exit"}
           /\ pc' # "exit" =>
                 /\ levels' # levels => pc = "kline"
                 /\ last_price' # last_price => pc = "last"
                 /\ lot' # lot => pc = "lot"
                 /\ (holding_qty' # holding_qty \/ avg_cost' # avg_cost) => pc = "pos"
                 /\ orders' # orders => pc = "orders"
                 /\ calls' # calls => pc \in LegPcs
                 /\ file' # file => pc = "save_replace"
                 /\ out' # out => FALSE
           /\ (pc' = "exit" /\ out' # out) => pc = "emit")]_vars

\* C23 witness: a cycle has called for two buy tranches, the higher price
\* first, then TP1, then TP2, and has saved its state before any output.
C23_Witness ==
    /\ pc = "emit"
    /\ Len(calls) >= 4
    /\ calls[1].side = "BUY" /\ calls[2].side = "BUY"
    /\ calls[1].price > calls[2].price
    /\ calls[3].leg = <<"TP1">>
    /\ calls[4].leg = <<"TP2">>
    /\ file = Full(state)
    /\ out = << >>

\* C24: whenever the trailing stop fires, the protective SELL price is on the
\* 0.1 tick nearest to 0.995 * last_price and is never above last_price.
C24_ProtectiveBelowMarket ==
    \A i \in 1..Len(calls) :
        (pc \in CyclePcs /\ calls[i].leg = <<"TRAIL_STOP">>)
        => /\ calls[i].side = "SELL"
           /\ calls[i].price % 10 = 0
           /\ Abs(1000 * calls[i].price - 995 * last_price) <= 5000
           /\ calls[i].price <= last_price

\* the total quantity of the SELL orders among the calls cs
RECURSIVE SellQty(_)
SellQty(cs) ==
    IF cs = << >> THEN 0
    ELSE (IF Head(cs).side = "SELL" THEN Head(cs).qty ELSE 0) + SellQty(Tail(cs))

\* C25: no overselling within a cycle: the total quantity of the SELL orders
\* the cycle has placed (TP1 + TP2 + trailing stop) is at most the held
\* quantity, and with a held quantity of 0 no SELL is placed.
C25_NoOverselling ==
    pc \in CyclePcs
    => /\ SellQty(Accepted(calls)) <= holding_qty
       /\ holding_qty = 0 => \A i \in 1..Len(calls) : calls[i].side # "SELL"

\* the orders the venue listed before the first invocation, whatever their status now
ListedAtStart ==
    {[trd_side |-> b[i].trd_side, qty |-> b[i].qty, price |-> b[i].price] :
        b \in {x \in InitBooks : x # << >>}, i \in {1}}

\* the notional, in cents, of the BUY orders of the list bk that the program placed
RECURSIVE BuyNotional(_)
BuyNotional(bk) ==
    IF bk = << >> THEN 0
    ELSE (IF /\ Head(bk).trd_side = "BUY"
             /\ [trd_side |-> "BUY", qty |-> Head(bk).qty, price |-> Head(bk).price]
                    \notin ListedAtStart
          THEN Head(bk).qty * Head(bk).price
          ELSE 0)
         + BuyNotional(Tail(bk))

\* C26: budget bound across the run: over any sequence of cycles, fills of
\* earlier tranches included, the cumulative notional of all BUY orders the
\* program has placed never exceeds the configured total cash budget.
C26_BudgetBound ==
    \A b \in BudgetChoices : BuyNotional(book) <= 100 * b

====
